---------------------------- MODULE Spec2Model ----------------------------
(***************************************************************************)
(* Model of src/python/sumQuery.py: SegmentTree2D, a two-dimensional       *)
(* segment tree for rectangle add / rectangle sum.  The tree is the dense  *)
(* 4n x 4m table of Node records of the source; update and query are the   *)
(* recursive descents updateByX/updateByY and queryByX/queryByY, written   *)
(* as recursive operators that thread the table (and a pending IndexError) *)
(* through the calls in the order the source makes them.                   *)
(***************************************************************************)
EXTENDS Integers, Sequences, FiniteSets

VARIABLES
    n,      \* self.n : number of rows given to __init__
    m,      \* self.m : number of columns given to __init__
    tree,   \* self.tree : tree[i][j] is the Node at (outer i, inner j)
    hist,   \* the update calls made so far, in order (ghost)
    err,    \* TRUE when the last call ended in an IndexError
    call    \* kind of the last call and whether its arguments were in range

vars == <<n, m, tree, hist, err, call>>

----------------------------------------------------------------------------
(* Bounds of the model *)

MaxN == 3
MaxUpdates == 2
MaxUncheckedN == 2
MaxUncheckedUpdates == 1

\* values added by update
Vals == {0, 2}

----------------------------------------------------------------------------
(* Node and the table built by __init__ *)

Node == [partialBoth |-> 0, partialY |-> 0, partialX |-> 0, fullBoth |-> 0]

\* (mutant) one row list per grid row: the factor 4 forgotten
TableRowsExact(rows) == rows

TableRows(rows) == 4 * rows

TableCols(cols) == 4 * cols

\* range(k) is empty for k <= 0
Construct(rows, cols) ==
    [i \in 0..(TableRows(rows) - 1) |-> [j \in 0..(TableCols(cols) - 1) |-> Node]]

max(a, b) == IF a >= b THEN a ELSE b

min(a, b) == IF a <= b THEN a ELSE b

\* self.tree[nodeID[0]][nodeID[1]] raises IndexError outside the lists
InTable(t, nodeID) ==
    /\ nodeID[1] \in DOMAIN t
    /\ nodeID[2] \in DOMAIN t[nodeID[1]]

----------------------------------------------------------------------------
(* update *)

\* (mutant) assignment where the source adds
UpdateCoveredAssign(node, xLo, xHi, yLo, yHi, qxLo, qxHi, v, covered) ==
    IF covered
    THEN [node EXCEPT !.fullBoth = v,
                      !.partialY = v * (yHi - yLo + 1)]
    ELSE LET txLo == max(qxLo, xLo)
             txHi == min(qxHi, xHi)
         IN [node EXCEPT !.partialX = v * (txHi - txLo + 1),
                         !.partialBoth = v * (txHi - txLo + 1) * (yHi - yLo + 1)]

\* (mutant) partialY grows by v, not by v times the number of columns
UpdateCoveredNoWidth(node, xLo, xHi, yLo, yHi, qxLo, qxHi, v, covered) ==
    IF covered
    THEN [node EXCEPT !.fullBoth = @ + v,
                      !.partialY = @ + v]
    ELSE LET txLo == max(qxLo, xLo)
             txHi == min(qxHi, xHi)
         IN [node EXCEPT !.partialX = @ + v * (txHi - txLo + 1),
                         !.partialBoth = @ + v * (txHi - txLo + 1) * (yHi - yLo + 1)]

\* (mutant) the node's whole row range where the source clips it to the update
UpdateCoveredFullRows(node, xLo, xHi, yLo, yHi, qxLo, qxHi, v, covered) ==
    IF covered
    THEN [node EXCEPT !.fullBoth = @ + v,
                      !.partialY = @ + v * (yHi - yLo + 1)]
    ELSE [node EXCEPT !.partialX = @ + v * (xHi - xLo + 1),
                      !.partialBoth = @ + v * (xHi - xLo + 1) * (yHi - yLo + 1)]

\* the y-covered branch of updateByY
UpdateCovered(node, xLo, xHi, yLo, yHi, qxLo, qxHi, v, covered) ==
    IF covered
    THEN [node EXCEPT !.fullBoth = @ + v,
                      !.partialY = @ + v * (yHi - yLo + 1)]
    ELSE LET txLo == max(qxLo, xLo)
             txHi == min(qxHi, xHi)
         IN [node EXCEPT !.partialX = @ + v * (txHi - txLo + 1),
                         !.partialBoth = @ + v * (txHi - txLo + 1) * (yHi - yLo + 1)]

\* (mutant) the node's own pending rates left out of the recomputation
FoldChildrenOnly(node, left_node, right_node, yLo, yHi) ==
    [node EXCEPT
       !.partialBoth = left_node.partialBoth + right_node.partialBoth,
       !.partialY = left_node.partialY + right_node.partialY]

\* (mutant) the two rates taken for one another
FoldRatesSwapped(node, left_node, right_node, yLo, yHi) ==
    [node EXCEPT
       !.partialBoth = left_node.partialBoth + right_node.partialBoth
                         + node.fullBoth * (yHi - yLo + 1),
       !.partialY = left_node.partialY + right_node.partialY
                         + node.partialX * (yHi - yLo + 1)]

\* the recomputation of a y-partial node from its two children
Fold(node, left_node, right_node, yLo, yHi) ==
    [node EXCEPT
       !.partialBoth = left_node.partialBoth + right_node.partialBoth
                         + node.partialX * (yHi - yLo + 1),
       !.partialY = left_node.partialY + right_node.partialY
                         + node.fullBoth * (yHi - yLo + 1)]

RECURSIVE updateByY(_, _, _, _, _, _, _, _, _, _, _, _)
updateByY(st, nodeID, xLo, xHi, yLo, yHi, qxLo, qxHi, qyLo, qyHi, v, covered) ==
    IF st.err THEN st
    ELSE IF qyHi < yLo \/ yHi < qyLo THEN st
    ELSE IF ~InTable(st.tree, nodeID) THEN [st EXCEPT !.err = TRUE]
    ELSE IF qyLo <= yLo /\ yHi <= qyHi
    THEN [st EXCEPT !.tree[nodeID[1]][nodeID[2]] =
              UpdateCovered(@, xLo, xHi, yLo, yHi, qxLo, qxHi, v, covered)]
    ELSE LET yMid == (yLo + yHi) \div 2
             leftID == <<nodeID[1], nodeID[2] * 2 + 1>>
             rightID == <<leftID[1], leftID[2] + 1>>
             s1 == updateByY(st, leftID, xLo, xHi, yLo, yMid,
                             qxLo, qxHi, qyLo, qyHi, v, covered)
             s2 == updateByY(s1, rightID, xLo, xHi, yMid + 1, yHi,
                             qxLo, qxHi, qyLo, qyHi, v, covered)
         IN IF s2.err THEN s2
            ELSE IF ~InTable(s2.tree, leftID) \/ ~InTable(s2.tree, rightID)
            THEN [s2 EXCEPT !.err = TRUE]
            ELSE [s2 EXCEPT !.tree[nodeID[1]][nodeID[2]] =
                      Fold(@, s2.tree[leftID[1]][leftID[2]],
                           s2.tree[rightID[1]][rightID[2]], yLo, yHi)]

RECURSIVE updateByX(_, _, _, _, _, _, _, _, _)
updateByX(st, nodeID, xLo, xHi, qxLo, qxHi, qyLo, qyHi, v) ==
    IF st.err THEN st
    ELSE IF qxHi < xLo \/ xHi < qxLo THEN st
    ELSE IF qxLo <= xLo /\ xHi <= qxHi
    THEN updateByY(st, nodeID, xLo, xHi, 0, m - 1, qxLo, qxHi, qyLo, qyHi, v, TRUE)
    ELSE LET xMid == (xLo + xHi) \div 2
             left == <<nodeID[1] * 2 + 1, nodeID[2]>>
             right == <<left[1] + 1, left[2]>>
             s1 == updateByX(st, left, xLo, xMid, qxLo, qxHi, qyLo, qyHi, v)
             s2 == updateByX(s1, right, xMid + 1, xHi, qxLo, qxHi, qyLo, qyHi, v)
         IN updateByY(s2, nodeID, xLo, xHi, 0, m - 1, qxLo, qxHi, qyLo, qyHi, v, FALSE)

update(t, qxLo, qxHi, qyLo, qyHi, v) ==
    updateByX([tree |-> t, err |-> FALSE], <<0, 0>>, 0, n - 1,
              qxLo, qxHi, qyLo, qyHi, v)

----------------------------------------------------------------------------
(* query *)

\* (mutant) partialY scaled in place in the table instead of in a local
QueryCoveredInPlace(st, nodeID, xLo, xHi, qxLo, qxHi) ==
    LET node == st.tree[nodeID[1]][nodeID[2]] IN
    IF qxLo <= xLo /\ xHi <= qxHi
    THEN [st EXCEPT !.val = node.partialBoth + node.partialY * (xHi - xLo + 1)]
    ELSE [st EXCEPT !.val = node.partialY * (qxHi - qxLo + 1),
                    !.tree[nodeID[1]][nodeID[2]].partialY = @ * (qxHi - qxLo + 1)]

\* the y-covered branch of queryByY: the value returned, the table as it was
QueryCovered(st, nodeID, xLo, xHi, qxLo, qxHi) ==
    LET node == st.tree[nodeID[1]][nodeID[2]] IN
    IF qxLo <= xLo /\ xHi <= qxHi
    THEN [st EXCEPT !.val = node.partialBoth + node.partialY * (xHi - xLo + 1)]
    ELSE LET scaled_value == node.partialY * (qxHi - qxLo + 1)
         IN [st EXCEPT !.val = scaled_value]

\* (mutant) partialX never added to lazy_result
LazyResultNoPartialX(node, xLo, xHi, yLo, yHi, qxLo, qxHi, qyLo, qyHi) ==
    LET tyLo == max(yLo, qyLo)
        tyHi == min(yHi, qyHi)
        txLo == max(xLo, qxLo)
        txHi == min(xHi, qxHi)
    IN node.fullBoth * (txHi - txLo + 1) * (tyHi - tyLo + 1)

\* lazy_result of a y-partial node in queryByY
LazyResult(node, xLo, xHi, yLo, yHi, qxLo, qxHi, qyLo, qyHi) ==
    LET tyLo == max(yLo, qyLo)
        tyHi == min(yHi, qyHi)
        txLo == max(xLo, qxLo)
        txHi == min(xHi, qxHi)
        lazy_result == node.fullBoth * (txHi - txLo + 1) * (tyHi - tyLo + 1)
    IN IF qxLo <= xLo /\ xHi <= qxHi
       THEN lazy_result + node.partialX * (tyHi - tyLo + 1)
       ELSE lazy_result

RECURSIVE queryByY(_, _, _, _, _, _, _, _, _, _)
queryByY(st, nodeID, xLo, xHi, yLo, yHi, qxLo, qxHi, qyLo, qyHi) ==
    IF st.err THEN st
    ELSE IF qyHi < yLo \/ yHi < qyLo THEN [st EXCEPT !.val = 0]
    ELSE IF ~InTable(st.tree, nodeID) THEN [st EXCEPT !.err = TRUE]
    ELSE LET node == st.tree[nodeID[1]][nodeID[2]] IN
         IF qyLo <= yLo /\ yHi <= qyHi
         THEN QueryCovered(st, nodeID, xLo, xHi, qxLo, qxHi)
         ELSE LET yMid == (yLo + yHi) \div 2
                  left == <<nodeID[1], nodeID[2] * 2 + 1>>
                  right == <<left[1], left[2] + 1>>
                  lazy_result == LazyResult(node, xLo, xHi, yLo, yHi,
                                            qxLo, qxHi, qyLo, qyHi)
                  s1 == queryByY(st, left, xLo, xHi, yLo, yMid,
                                 qxLo, qxHi, qyLo, qyHi)
                  s2 == queryByY(s1, right, xLo, xHi, yMid + 1, yHi,
                                 qxLo, qxHi, qyLo, qyHi)
              IN IF s2.err THEN s2
                 ELSE [s2 EXCEPT !.val = s1.val + s2.val + lazy_result]

RECURSIVE queryByX(_, _, _, _, _, _, _, _)
queryByX(st, nodeID, xLo, xHi, qxLo, qxHi, qyLo, qyHi) ==
    IF st.err THEN st
    ELSE IF qxHi < xLo \/ xHi < qxLo THEN [st EXCEPT !.val = 0]
    ELSE IF qxLo <= xLo /\ xHi <= qxHi
    THEN queryByY(st, nodeID, xLo, xHi, 0, m - 1, qxLo, qxHi, qyLo, qyHi)
    ELSE LET xMid == (xLo + xHi) \div 2
             left == <<nodeID[1] * 2 + 1, nodeID[2]>>
             right == <<left[1] + 1, left[2]>>
             s1 == queryByX(st, left, xLo, xMid, qxLo, qxHi, qyLo, qyHi)
             s2 == queryByX(s1, right, xMid + 1, xHi, qxLo, qxHi, qyLo, qyHi)
             txLo == max(qxLo, xLo)
             txHi == min(qxHi, xHi)
             s3 == queryByY(s2, nodeID, xLo, xHi, 0, m - 1, txLo, txHi, qyLo, qyHi)
         IN IF s3.err THEN s3
            ELSE [s3 EXCEPT !.val = s1.val + s2.val + s3.val]

query(t, qxLo, qxHi, qyLo, qyHi) ==
    queryByX([tree |-> t, err |-> FALSE, val |-> 0], <<0, 0>>, 0, n - 1,
             qxLo, qxHi, qyLo, qyHi)

----------------------------------------------------------------------------
(* The calls a client makes *)

\* the ranges the interface documents: 0 <= lo <= hi <= size - 1
ValidRect(qxLo, qxHi, qyLo, qyHi) ==
    /\ 0 <= qxLo /\ qxLo <= qxHi /\ qxHi <= n - 1
    /\ 0 <= qyLo /\ qyLo <= qyHi /\ qyHi <= m - 1

DoUpdate(qxLo, qxHi, qyLo, qyHi, v) ==
    LET r == update(tree, qxLo, qxHi, qyLo, qyHi, v) IN
    /\ tree' = r.tree
    /\ err' = r.err
    /\ hist' = Append(hist, [xLo |-> qxLo, xHi |-> qxHi,
                             yLo |-> qyLo, yHi |-> qyHi, v |-> v])
    /\ call' = [op |-> "update", valid |-> ValidRect(qxLo, qxHi, qyLo, qyHi)]
    /\ UNCHANGED <<n, m>>

DoQuery(qxLo, qxHi, qyLo, qyHi) ==
    LET r == query(tree, qxLo, qxHi, qyLo, qyHi) IN
    /\ tree' = r.tree
    /\ err' = r.err
    /\ call' = [op |-> "query", valid |-> ValidRect(qxLo, qxHi, qyLo, qyHi)]
    /\ UNCHANGED <<n, m, hist>>

InitDims(dims) ==
    /\ n \in dims
    /\ m \in dims
    /\ tree = Construct(n, m)
    /\ hist = <<>>
    /\ err = FALSE
    /\ call = [op |-> "init", valid |-> TRUE]

Init == InitDims(1..MaxN)

Update ==
    /\ Len(hist) < MaxUpdates
    /\ \E qxLo \in 0..(n - 1), qxHi \in 0..(n - 1),
          qyLo \in 0..(m - 1), qyHi \in 0..(m - 1), v \in Vals :
          /\ ValidRect(qxLo, qxHi, qyLo, qyHi)
          /\ DoUpdate(qxLo, qxHi, qyLo, qyHi, v)

Query ==
    \E qxLo \in 0..(n - 1), qxHi \in 0..(n - 1),
       qyLo \in 0..(m - 1), qyHi \in 0..(m - 1) :
       /\ ValidRect(qxLo, qxHi, qyLo, qyHi)
       /\ DoQuery(qxLo, qxHi, qyLo, qyHi)

Next == Update \/ Query

Spec == Init /\ [][Next]_vars

(* Calls whose arguments nothing has checked: any dimensions, any coordinates *)

Coords(size) == (-1)..max(size, 0)

InitUnchecked == InitDims((-1)..MaxUncheckedN)

UncheckedUpdate ==
    /\ Len(hist) < MaxUncheckedUpdates
    /\ \E qxLo \in Coords(n), qxHi \in Coords(n),
          qyLo \in Coords(m), qyHi \in Coords(m), v \in Vals :
          DoUpdate(qxLo, qxHi, qyLo, qyHi, v)

UncheckedQuery ==
    \E qxLo \in Coords(n), qxHi \in Coords(n),
       qyLo \in Coords(m), qyHi \in Coords(m) :
       DoQuery(qxLo, qxHi, qyLo, qyHi)

NextUnchecked == UncheckedUpdate \/ UncheckedQuery

SpecUnchecked == InitUnchecked /\ [][NextUnchecked]_vars

----------------------------------------------------------------------------
(* What the claims speak of: the naive grid, the nodes of the two trees *)

RECURSIVE SumSeq(_)
SumSeq(s) == IF s = <<>> THEN 0 ELSE Head(s) + SumSeq(Tail(s))

\* number of integers in [aLo,aHi] that are also in [bLo,bHi]
Overlap(aLo, aHi, bLo, bHi) == max(0, min(aHi, bHi) - max(aLo, bLo) + 1)

Covers(qLo, qHi, lo, hi) == qLo <= lo /\ hi <= qHi

\* the valid rectangles of this instance
Rects ==
    {r \in [xLo : 0..(n - 1), xHi : 0..(n - 1), yLo : 0..(m - 1), yHi : 0..(m - 1)] :
        r.xLo <= r.xHi /\ r.yLo <= r.yHi}

\* what a naive n x m grid that starts at zero gives for rectangle r after h
GridSum(h, r) ==
    SumSeq([k \in 1..Len(h) |->
              h[k].v * Overlap(h[k].xLo, h[k].xHi, r.xLo, r.xHi)
                     * Overlap(h[k].yLo, h[k].yHi, r.yLo, r.yHi)])

QueryOf(t, r) == query(t, r.xLo, r.xHi, r.yLo, r.yHi)

\* the table after the updates of h, in order, on a fresh instance
RECURSIVE Replay(_)
Replay(h) ==
    IF h = <<>> THEN Construct(n, m)
    ELSE LET u == h[Len(h)]
         IN update(Replay(SubSeq(h, 1, Len(h) - 1)), u.xLo, u.xHi, u.yLo, u.yHi, u.v).tree

\* the nodes of a segment tree over [lo,hi] rooted at index id: root 0,
\* children 2i+1 and 2i+2; par is the parent's range, <<>> at the root
RECURSIVE SegNodes(_, _, _, _)
SegNodes(id, lo, hi, par) ==
    {[id |-> id, lo |-> lo, hi |-> hi, par |-> par]} \cup
    (IF lo < hi
     THEN LET mid == (lo + hi) \div 2
          IN SegNodes(2 * id + 1, lo, mid, <<lo, hi>>)
               \cup SegNodes(2 * id + 2, mid + 1, hi, <<lo, hi>>)
     ELSE {})

OuterNodes == SegNodes(0, 0, n - 1, <<>>)

InnerNodes == SegNodes(0, 0, m - 1, <<>>)

\* the update's range [qLo,qHi] fully contains the range of the node's parent
CoversParent(qLo, qHi, node) ==
    node.par # <<>> /\ Covers(qLo, qHi, node.par[1], node.par[2])

Permutations(k) == {p \in [1..k -> 1..k] : \A a, b \in 1..k : p[a] = p[b] => a = b}

----------------------------------------------------------------------------
(* C1 *)

\* C1: after any sequence of valid updates (the empty one included) every
\* valid query returns the sum over the applied updates of v times the number
\* of cells common to the update's rectangle and the queried one: the value of
\* a naive grid that starts at zero.
C1_QueryMatchesGrid ==
    \A r \in Rects :
        LET q == QueryOf(tree, r) IN ~q.err /\ q.val = GridSum(hist, r)

\* two overlapping non-zero updates on a 3 x 3 grid, then a query
C1_Witness ==
    /\ n = 3 /\ m = 3 /\ call.op = "query"
    /\ hist = << [xLo |-> 0, xHi |-> 1, yLo |-> 1, yHi |-> 2, v |-> 2],
                 [xLo |-> 1, xHi |-> 2, yLo |-> 0, yHi |-> 1, v |-> 2] >>
    /\ query(tree, 1, 2, 1, 1).val = 6

----------------------------------------------------------------------------
(* C2, C3 *)

\* C2: update or query with a coordinate outside the grid, or with lo > hi,
\* fails with an error raised to the caller before any mutation: the call
\* ends in an error and no Node field differs from its value before the call
\* (stated for an instance of positive dimensions).
C2_InvalidCallRejected ==
    [][(n >= 1 /\ m >= 1 /\ call'.op \in {"update", "query"} /\ ~call'.valid)
          => (err' /\ tree' = tree)]_vars

\* C3: construction with n <= 0 or m <= 0 is rejected: no instance exists
\* whose dimensions are not positive.
C3_NonPositiveDimsRejected == n >= 1 /\ m >= 1

----------------------------------------------------------------------------
(* C4, C5 *)

\* C4: updates commute: the updates applied so far, applied in any other
\* order to a fresh instance, give the same result for every valid query.
C4_UpdatesCommute ==
    \A p \in Permutations(Len(hist)) :
        LET t == Replay([k \in 1..Len(hist) |-> hist[p[k]]])
        IN \A r \in Rects : QueryOf(t, r).val = QueryOf(tree, r).val

\* two different non-commuting-looking updates: one covers all rows and part
\* of the columns, the other part of the rows and all columns
C4_Witness ==
    /\ n = 3 /\ m = 3 /\ Len(hist) = 2
    /\ hist[1] = [xLo |-> 0, xHi |-> 2, yLo |-> 1, yHi |-> 1, v |-> 2]
    /\ hist[2] = [xLo |-> 1, xHi |-> 1, yLo |-> 0, yHi |-> 2, v |-> 2]
    /\ query(tree, 1, 1, 1, 1).val = 4

IsNonZero(u) == u.v # 0

\* C5: an update with v = 0, wherever it stands in the sequence, changes no
\* query result: every valid query returns what it returns after the same
\* sequence without the updates of value 0.
C5_ZeroUpdateChangesNothing ==
    LET t == Replay(SelectSeq(hist, IsNonZero))
    IN \A r \in Rects : QueryOf(t, r).val = QueryOf(tree, r).val

\* a zero update over part of the columns follows a non-zero update
C5_Witness ==
    /\ n = 3 /\ m = 3 /\ Len(hist) = 2
    /\ hist[1] = [xLo |-> 0, xHi |-> 1, yLo |-> 0, yHi |-> 2, v |-> 2]
    /\ hist[2] = [xLo |-> 0, xHi |-> 0, yLo |-> 1, yHi |-> 1, v |-> 0]
    /\ query(tree, 0, 2, 0, 2).val = 12

----------------------------------------------------------------------------
(* C6 *)

\* C6: query is read-only: a query leaves all four fields of every Node of
\* the table as they were.
C6_QueryReadOnly == [][call'.op = "query" => tree' = tree]_vars

\* a query has run on a table that updates have filled
C6_Witness ==
    /\ call.op = "query" /\ n = 3 /\ m = 3 /\ Len(hist) = 2
    /\ \A k \in 1..2 : hist[k].v = 2 /\ hist[k].xLo = 1 /\ hist[k].yHi = 1
    /\ tree # Construct(n, m)

----------------------------------------------------------------------------
(* C7, C8 *)

\* C7 as the specification states it: partialY of every Node is the sum, over
\* all updates whose row range fully contains the outer node's rows, of v
\* times the number of the inner node's columns in the update's column range.
C7_PartialYAllContaining ==
    \A x \in OuterNodes, y \in InnerNodes :
        tree[x.id][y.id].partialY =
            SumSeq([k \in 1..Len(hist) |->
                IF Covers(hist[k].xLo, hist[k].xHi, x.lo, x.hi)
                THEN hist[k].v * Overlap(hist[k].yLo, hist[k].yHi, y.lo, y.hi)
                ELSE 0])

\* C7 amended: the sum runs over the updates that the descent records at this
\* Node or below it: their row range fully contains the outer node's rows but
\* not those of its parent, and their column range does not fully contain the
\* columns of the inner node's parent.
C7_PartialYRecorded ==
    \A x \in OuterNodes, y \in InnerNodes :
        tree[x.id][y.id].partialY =
            SumSeq([k \in 1..Len(hist) |->
                IF /\ Covers(hist[k].xLo, hist[k].xHi, x.lo, x.hi)
                   /\ ~CoversParent(hist[k].xLo, hist[k].xHi, x)
                   /\ ~CoversParent(hist[k].yLo, hist[k].yHi, y)
                THEN hist[k].v * Overlap(hist[k].yLo, hist[k].yHi, y.lo, y.hi)
                ELSE 0])

\* rows [0,1] of three are covered by both updates; the first covers the
\* columns of the inner root, the second only part of them
C7_Witness ==
    /\ n = 3 /\ m = 3 /\ call.op = "update"
    /\ hist = << [xLo |-> 0, xHi |-> 2, yLo |-> 0, yHi |-> 2, v |-> 2],
                 [xLo |-> 0, xHi |-> 1, yLo |-> 1, yHi |-> 2, v |-> 2] >>
    /\ tree[0][0].partialY = 6
    /\ tree[1][0].partialY = 4
    /\ tree[1][1].partialY = 2

\* C8 as the specification states it: partialBoth of every Node is the sum,
\* over all updates whose row range does not fully contain the outer node's
\* rows, of v times the rows in common times the columns in common.
C8_PartialBothAllPartial ==
    \A x \in OuterNodes, y \in InnerNodes :
        tree[x.id][y.id].partialBoth =
            SumSeq([k \in 1..Len(hist) |->
                IF ~Covers(hist[k].xLo, hist[k].xHi, x.lo, x.hi)
                THEN hist[k].v * Overlap(hist[k].xLo, hist[k].xHi, x.lo, x.hi)
                               * Overlap(hist[k].yLo, hist[k].yHi, y.lo, y.hi)
                ELSE 0])

\* C8 amended: of those updates, only the ones whose column range does not
\* fully contain the columns of the inner node's parent.
C8_PartialBothRecorded ==
    \A x \in OuterNodes, y \in InnerNodes :
        tree[x.id][y.id].partialBoth =
            SumSeq([k \in 1..Len(hist) |->
                IF /\ ~Covers(hist[k].xLo, hist[k].xHi, x.lo, x.hi)
                   /\ ~CoversParent(hist[k].yLo, hist[k].yHi, y)
                THEN hist[k].v * Overlap(hist[k].xLo, hist[k].xHi, x.lo, x.hi)
                               * Overlap(hist[k].yLo, hist[k].yHi, y.lo, y.hi)
                ELSE 0])

\* two updates cover part of the rows of the outer root; one covers all
\* columns, the other part of them
C8_Witness ==
    /\ n = 3 /\ m = 3 /\ call.op = "update"
    /\ hist = << [xLo |-> 1, xHi |-> 2, yLo |-> 0, yHi |-> 2, v |-> 2],
                 [xLo |-> 0, xHi |-> 0, yLo |-> 1, yHi |-> 1, v |-> 2] >>
    /\ tree[0][0].partialBoth = 14
    /\ tree[0][1].partialBoth = 2
    /\ tree[2][0].partialBoth = 0

----------------------------------------------------------------------------
(* C9, C10 *)

\* C9: no Node access of a valid update or query falls outside the table:
\* no call ends in an IndexError, and every node index of the two trees (the
\* children read after a partial column overlap included) is an index of the
\* 4n x 4m table.
C9_AccessesInTable ==
    /\ ~err
    /\ \A x \in OuterNodes, y \in InnerNodes :
          /\ InTable(tree, <<x.id, y.id>>)
          /\ x.id < 4 * n
          /\ y.id < 4 * m

\* an update has gone down to the deepest Node of a 3 x 3 instance, through
\* partial overlaps in both dimensions
C9_Witness ==
    /\ n = 3 /\ m = 3 /\ call.op = "update" /\ ~err
    /\ hist # <<>>
    /\ hist[Len(hist)] = [xLo |-> 1, xHi |-> 1, yLo |-> 1, yHi |-> 1, v |-> 2]
    /\ tree[4][4].fullBoth # 0

\* C10: in every state reached by valid updates, at every Node of every
\* inner tree: at a leaf partialY = fullBoth and partialBoth = partialX, and
\* elsewhere each exact sum is the sum of the two column-children's plus the
\* node's own rate times its number of columns.
C10_FoldInvariant ==
    \A x \in OuterNodes, y \in InnerNodes :
        LET node == tree[x.id][y.id] IN
        IF y.lo = y.hi
        THEN node.partialY = node.fullBoth /\ node.partialBoth = node.partialX
        ELSE LET left_node == tree[x.id][2 * y.id + 1]
                 right_node == tree[x.id][2 * y.id + 2]
             IN /\ node.partialY = left_node.partialY + right_node.partialY
                                     + node.fullBoth * (y.hi - y.lo + 1)
                /\ node.partialBoth = left_node.partialBoth + right_node.partialBoth
                                     + node.partialX * (y.hi - y.lo + 1)

\* a Node the last update did not visit holds rates of an earlier one
C10_Witness ==
    /\ n = 3 /\ m = 3 /\ call.op = "update"
    /\ hist = << [xLo |-> 0, xHi |-> 0, yLo |-> 0, yHi |-> 1, v |-> 2],
                 [xLo |-> 2, xHi |-> 2, yLo |-> 2, yHi |-> 2, v |-> 2] >>
    /\ tree[0][1].partialX = 2 /\ tree[0][1].partialBoth = 4
    /\ tree[0][0].partialBoth = 6

=============================================================================
